---- MODULE Spec2Model ----
(***************************************************************************)
(* Model of the DashboardVoila front end: the Pipecat WebSocket chat       *)
(* client and its reconnection logic, the Vapi REST chat client with its   *)
(* simulated streaming, the useChat hook that sits on top of both, the     *)
(* dashboard-service queries over tb_stat, and the AuthChecker component.  *)
(***************************************************************************)
EXTENDS Integers, Sequences, FiniteSets, TLC

\* JavaScript null / undefined
NULL == "null"
\* null in a numeric column or parameter, null in a character-string column
NullInt == -1
NullStr == <<"null">>

----------------------------------------------------------------------------
(* Bounds of the model *)

\* number of WebSocket objects the Pipecat client may create in one run
MaxSockets == 5

\* longest reply text, in characters
MaxLen == 3

\* messages the user sends in one run
MaxSends == 2

\* function_called messages the Pipecat server sends for one reply
MaxCalls == 2

\* rows of tb_stat
MaxRows == 2

\* times the dashboard layout mounts AuthChecker
MaxMounts == 3

\* simulateStreaming calls in one behaviour of the streaming specification
MaxStreams == 1

\* requests the route handler forwards to the Vapi API in one behaviour
MaxPosts == 1

\* items in the output array of a Vapi response
MaxItems == 1

\* characters in the message of a request to the route handler
MaxMessage == 1

----------------------------------------------------------------------------
(* State *)

\* PipecatChatClient and its sockets
VARIABLES
    sessionId,          \* PipecatChatClient.sessionId
    ws,                 \* PipecatChatClient.ws: index of the current socket, 0 = null
    isConnected,        \* PipecatChatClient.isConnected
    reconnectAttempts,  \* PipecatChatClient.reconnectAttempts
    reconnectTimeout,   \* PipecatChatClient.reconnectTimeout: "null", "pending", "fired"
    sockState,          \* every WebSocket created so far: "connecting", "open",
                        \* "failed" (closed before it opened), "lost" (closed
                        \* after it opened), "closed" (closed by disconnect)
    sockHandlers,       \* whether the socket still has its on* handlers
    serverUp,           \* environment: the Pipecat server accepts connections
    delayOf,            \* history: delay last scheduled for attempt number n (0 = never)
    schedSinceOpen,     \* history: reconnects scheduled since the last successful open
    lastConnect         \* history: how the last connect() call returned: "none",
                        \* "pending", "resolved" or the message it rejected with

pipecatVars == <<sessionId, ws, isConnected, reconnectAttempts, reconnectTimeout,
                 sockState, sockHandlers, serverUp, delayOf, schedSinceOpen,
                 lastConnect>>

\* useChat, VapiChatClient and the Pipecat server's side of the socket
VARIABLES
    provider,       \* NEXT_PUBLIC_CHAT_PROVIDER: "pipecat" or "vapi"
    hook,           \* the React state of useChat, one field per useState / useRef
    chatId,         \* VapiChatClient.chatId, 0 = null
    vapiConnected,  \* VapiChatClient.isConnected
    inflight,       \* POST /api/vapi-chat requests awaiting their response
    streams,        \* simulateStreaming calls whose timers have not all fired
    now,            \* time in units of 50 ms: the due time of the last timer that fired
    nSends,         \* history: messages sent so far
    srv,            \* environment: the Pipecat server's side of the socket
    msgEvents,      \* history: 'message' events delivered so far
    lastReply,      \* history: the full reply text of the last 'message' event
    chunkBefore,    \* history: currentChunk when the last 'message' event arrived
    clean,          \* history: nothing but chunk and message events of one reply
                    \* at a time has touched currentChunk
    connectPc,      \* position of the running useChat.connect call and the
                    \* socket whose opening it awaits
    contId,         \* history: chat_id of the last answered request among those
                    \* issued since the last connect, disconnect or clear, 0 = none
    doneStream      \* history: the last simulateStreaming call that ran to its end

chatVars == <<provider, hook, chatId, vapiConnected, inflight, streams, now,
              nSends, srv, msgEvents, lastReply, chunkBefore, clean, connectPc,
              contId, doneStream>>

\* tb_stat and the last dashboard-service call
VARIABLES
    tb_stat,    \* the rows of tb_stat, in the order PostgREST returns them
    call,       \* the last query: its function and parameters
    matched,    \* history: the rows the query's filter selected
    result      \* what the function returned

dashVars == <<tb_stat, call, matched, result>>

\* AuthChecker
VARIABLES
    localStorage,   \* the two keys the component touches
    checker,        \* one checkAuth run per mount: its position and its token
    fetchResult,    \* environment: what the auth-verify request of a run yielded
    authLog         \* history: the calls of the runs, in order

authVars == <<localStorage, checker, fetchResult, authLog>>

\* the route handler POST /api/vapi-chat
VARIABLES
    env,            \* process.env: VAPI_API_KEY, ASSISTANT_ID, VAPI_CHAT_URL
    request,        \* the body of the last request
    nextResponse,   \* the NextResponse last returned: status and JSON body
    vapiSent,       \* history: requests sent to the Vapi API so far
    vapiPayload     \* history: the payload of the last request sent to the Vapi API

routeVars == <<env, request, nextResponse, vapiSent, vapiPayload>>

vars == <<pipecatVars, chatVars, dashVars, authVars, routeVars>>

\* the state of the other parts, left alone by the actions of one part
notPipecat == <<chatVars, dashVars, authVars, routeVars>>
notChat == <<pipecatVars, dashVars, authVars, routeVars>>
notDash == <<pipecatVars, chatVars, authVars, routeVars>>
notAuth == <<pipecatVars, chatVars, dashVars, routeVars>>
notRoute == <<pipecatVars, chatVars, dashVars, authVars>>

----------------------------------------------------------------------------
(* PipecatChatClient (src/lib/pipecat-chat-client.ts) *)

maxReconnectAttempts == 3

RECURSIVE Pow2(_)
Pow2(n) == IF n = 0 THEN 1 ELSE 2 * Pow2(n - 1)

Min(a, b) == IF a < b THEN a ELSE b

\* the plausible slip: a constant delay
ReconnectDelayFixed(attempt) == 1000

\* const delay = Math.min(1000 * Math.pow(2, this.reconnectAttempts - 1), 10000)
ReconnectDelay(attempt) == Min(1000 * Pow2(attempt - 1), 10000)

\* reject(new Error('No session ID. Call createSession() first.'))
NoSessionError == "No session ID. Call createSession() first."

\* createSession(): the POST either returns a session id or throws
CreateSession ==
    /\ \E ok \in BOOLEAN : sessionId' = IF ok THEN "s1" ELSE sessionId
    /\ UNCHANGED <<ws, isConnected, reconnectAttempts, reconnectTimeout,
                   sockState, sockHandlers, serverUp, delayOf, schedSinceOpen>>
    /\ UNCHANGED lastConnect
    /\ UNCHANGED notPipecat

\* the body of connect(): rejects without a session, resolves at once when
\* connected, otherwise creates a WebSocket and installs the four handlers
ConnectWith(session) ==
    IF session = NULL \/ isConnected
    THEN /\ lastConnect' = IF session = NULL THEN NoSessionError ELSE "resolved"
         /\ UNCHANGED <<ws, sockState, sockHandlers>>
    ELSE /\ lastConnect' = "pending"
         /\ ws' = Len(sockState) + 1
         /\ sockState' = Append(sockState, "connecting")
         /\ sockHandlers' = Append(sockHandlers, TRUE)

ConnectBody == ConnectWith(sessionId)

\* connect() called by the owner of the client
Connect ==
    /\ Len(sockState) < MaxSockets
    /\ ConnectBody
    /\ UNCHANGED <<sessionId, isConnected, reconnectAttempts, reconnectTimeout,
                   serverUp, delayOf, schedSinceOpen>>
    /\ UNCHANGED notPipecat

\* the setTimeout callback of attemptReconnect: this.connect().catch(...)
ReconnectTimerFires ==
    /\ reconnectTimeout = "pending"
    /\ Len(sockState) < MaxSockets
    /\ reconnectTimeout' = "fired"
    /\ ConnectBody
    /\ UNCHANGED <<sessionId, isConnected, reconnectAttempts,
                   serverUp, delayOf, schedSinceOpen>>
    /\ UNCHANGED notPipecat

\* ws.onopen: what it does to the client
SocketOpensBody(s) ==
    /\ sockState[s] = "connecting"
    /\ sockHandlers[s]
    /\ serverUp
    /\ sockState' = [sockState EXCEPT ![s] = "open"]
    /\ isConnected' = TRUE
    /\ reconnectAttempts' = 0
    /\ schedSinceOpen' = 0
    /\ UNCHANGED <<sessionId, ws, reconnectTimeout, sockHandlers, serverUp, delayOf>>
    /\ UNCHANGED lastConnect

\* ws.onopen of a client nobody listens to
SocketOpens(s) ==
    /\ SocketOpensBody(s)
    /\ UNCHANGED notPipecat

\* the onclose guard as a slip would write it
MayReconnectOffByOne == reconnectAttempts <= maxReconnectAttempts

\* if (this.reconnectAttempts < this.maxReconnectAttempts)
MayReconnect == reconnectAttempts < maxReconnectAttempts

\* ws.onclose, with attemptReconnect() inlined
OnClose ==
    /\ isConnected' = FALSE
    /\ IF MayReconnect
       THEN /\ reconnectAttempts' = reconnectAttempts + 1
            /\ reconnectTimeout' = "pending"
            /\ delayOf' = [n \in DOMAIN delayOf |->
                             IF n = reconnectAttempts + 1
                             THEN ReconnectDelay(reconnectAttempts + 1)
                             ELSE delayOf[n]]
            /\ schedSinceOpen' = schedSinceOpen + 1
       ELSE UNCHANGED <<reconnectAttempts, reconnectTimeout, delayOf, schedSinceOpen>>

\* a socket closes: a connecting one fails (onerror, then onclose), an open
\* one is lost (onclose)
SocketClosesBody(s) ==
    /\ sockState[s] \in {"connecting", "open"}
    /\ sockHandlers[s]
    /\ sockState' = [sockState EXCEPT ![s] = IF @ = "open" THEN "lost" ELSE "failed"]
    /\ OnClose
    /\ UNCHANGED <<sessionId, ws, sockHandlers, serverUp>>
    /\ UNCHANGED lastConnect

\* a socket of a client nobody listens to closes
SocketCloses(s) ==
    /\ SocketClosesBody(s)
    /\ UNCHANGED notPipecat

\* disconnect(): cancels the timer, pins the counter at the cap, detaches the
\* handlers of the current socket and closes it, forgets the session
Disconnect ==
    /\ reconnectTimeout' = "null"
    /\ reconnectAttempts' = maxReconnectAttempts
    /\ IF ws # 0
       THEN /\ sockHandlers' = [sockHandlers EXCEPT ![ws] = FALSE]
            /\ sockState' = [sockState EXCEPT ![ws] = "closed"]
       ELSE UNCHANGED <<sockHandlers, sockState>>
    /\ ws' = 0
    /\ sessionId' = NULL
    /\ isConnected' = FALSE
    /\ UNCHANGED <<serverUp, delayOf, schedSinceOpen>>
    /\ UNCHANGED lastConnect
    /\ UNCHANGED notPipecat

\* environment: the server becomes unreachable or reachable again
ServerFlips ==
    /\ serverUp' = ~serverUp
    /\ UNCHANGED <<sessionId, ws, isConnected, reconnectAttempts, reconnectTimeout,
                   sockState, sockHandlers, delayOf, schedSinceOpen>>
    /\ UNCHANGED lastConnect
    /\ UNCHANGED notPipecat

NextPipecat ==
    \/ CreateSession
    \/ Connect
    \/ ReconnectTimerFires
    \/ \E s \in DOMAIN sockState : SocketOpens(s)
    \/ \E s \in DOMAIN sockState : SocketCloses(s)
    \/ Disconnect
    \/ ServerFlips

----------------------------------------------------------------------------
(* JavaScript strings and values *)

\* a string is a sequence of characters; the replies of the model are written
\* over the letter a and the space
Chars == {"a", " "}

Strings(n) == UNION {[1..k -> Chars] : k \in 0..n}

\* what String(obj) yields for a plain object, as one token
ObjectObject == "[object Object]"

UNDEF == [t |-> "undefined", v |-> << >>]
Str(s) == [t |-> "string", v |-> s]
\* the objects the Vapi client emits: every text field of the object holds v
Obj(s) == [t |-> "object", v |-> s]

\* JavaScript truthiness of the values above
Truthy(x) == x.t = "object" \/ (x.t = "string" /\ x.v # << >>)

\* a || b
Or(a, b) == IF Truthy(a) THEN a ELSE b

\* data.text, data.content, data.full_response: undefined on a string
Field(data) == IF data.t = "object" THEN Str(data.v) ELSE UNDEF

\* the string a value turns into under prev + value
JsString(x) == IF x.t = "string" THEN x.v ELSE <<ObjectObject>>

IndexOfSpace(s) ==
    IF \E i \in 1..Len(s) : s[i] = " "
    THEN CHOOSE i \in 1..Len(s) : s[i] = " " /\ \A j \in 1..(i - 1) : s[j] # " "
    ELSE 0

\* fullText.split(' ')
RECURSIVE Split(_)
Split(s) ==
    IF IndexOfSpace(s) = 0
    THEN <<s>>
    ELSE <<SubSeq(s, 1, IndexOfSpace(s) - 1)>>
         \o Split(SubSeq(s, IndexOfSpace(s) + 1, Len(s)))

\* text.trim()
RECURSIVE Trim(_)
Trim(s) ==
    IF s = << >> THEN s
    ELSE IF Head(s) = " " THEN Trim(Tail(s))
    ELSE IF s[Len(s)] = " " THEN Trim(SubSeq(s, 1, Len(s) - 1))
    ELSE s

----------------------------------------------------------------------------
(* useChat (src/app/api/vapi-chat/route.ts:456-672), VapiChatClient          *)
(* (src/lib/vapi-chat-client.ts) and the message handling of                 *)
(* PipecatChatClient                                                           *)

\* inputs of the model
Replies == Strings(MaxLen)
UserTexts == {<< >>, <<" ">>, <<"a">>}
FunctionNames == {"knowledge_base_new", "route_to_booking"}

\* fn.includes('route_to')
IncludesRouteTo(fn) == fn = "route_to_booking"

\* on('chunk'): const text = data.text || data; setCurrentChunk(prev => prev + text)
OnChunk(h, data) ==
    [h EXCEPT !.currentChunk = @ \o JsString(Or(Field(data), data))]

\* on('function_called'): currentFunctionCallsRef.current.push(functionName)
OnFunctionCalled(h, fn) ==
    [h EXCEPT !.currentFunctionCalls = Append(@, fn)]

\* currentFunctionCallsRef.current.find(fn => !fn.includes('route_to'))
\*   || currentFunctionCallsRef.current[0] || null
FunctionCalledOf(calls) ==
    IF \E i \in 1..Len(calls) : ~IncludesRouteTo(calls[i])
    THEN calls[CHOOSE i \in 1..Len(calls) :
                 /\ ~IncludesRouteTo(calls[i])
                 /\ \A j \in 1..(i - 1) : IncludesRouteTo(calls[j])]
    ELSE IF calls # << >> THEN calls[1] ELSE NULL

\* on('message')
OnMessage(h, data) ==
    [h EXCEPT
        !.messages = Append(@, [role |-> "assistant",
                                content |-> Or(Field(data), data),
                                functionCalled |-> FunctionCalledOf(h.currentFunctionCalls)]),
        !.currentChunk = << >>,
        !.isTyping = FALSE,
        !.currentFunctionCalls = << >>]

\* on('error')
OnError(h) ==
    [h EXCEPT !.error = "error", !.isTyping = FALSE, !.currentChunk = << >>]

\* history: the requests in flight were issued before a connect, disconnect or
\* clearConversation
MarkStale(requests) == [i \in DOMAIN requests |-> [requests[i] EXCEPT !.stale = TRUE]]

\* useChat.connect with the Vapi client: VapiChatClient.connect() emits
\* 'connected'
HookConnect ==
    /\ provider = "vapi"
    /\ ~hook.isConnected
    /\ vapiConnected' = TRUE
    /\ hook' = [hook EXCEPT !.isConnected = TRUE, !.error = NULL]
    /\ inflight' = MarkStale(inflight)
    /\ contId' = 0
    /\ UNCHANGED <<provider, chatId, streams, now, nSends, srv,
                   msgEvents, lastReply, chunkBefore, clean, doneStream>>
    /\ UNCHANGED connectPc
    /\ UNCHANGED notChat

\* useChat.disconnect with the Vapi client: VapiChatClient.disconnect(), then
\* the hook's state is reset; pending streaming timers are not cancelled
HookDisconnect ==
    /\ provider = "vapi"
    /\ vapiConnected' = FALSE
    /\ chatId' = 0
    /\ hook' = [hook EXCEPT !.isConnected = FALSE, !.messages = << >>,
                            !.currentChunk = << >>, !.isTyping = FALSE,
                            !.error = NULL]
    /\ clean' = FALSE
    /\ inflight' = MarkStale(inflight)
    /\ contId' = 0
    /\ UNCHANGED <<provider, streams, now, nSends, srv,
                   msgEvents, lastReply, chunkBefore, doneStream>>
    /\ UNCHANGED connectPc
    /\ UNCHANGED notChat

\* useChat.sendMessage(text) and the client's sendMessage it calls
HookSendMessage(text) ==
    /\ nSends < MaxSends
    /\ hook.isConnected
    /\ Trim(text) # << >>
    /\ nSends' = nSends + 1
    /\ IF provider = "vapi"
       THEN /\ IF vapiConnected
               THEN \* emit('typing'), then the fetch is issued
                    /\ hook' = [hook EXCEPT
                                  !.messages = Append(@, [role |-> "user",
                                                          content |-> Str(text),
                                                          functionCalled |-> NULL]),
                                  !.isTyping = TRUE]
                    /\ inflight' = Append(inflight, [id |-> nSends + 1,
                                                  previous_chat_id |-> chatId,
                                                  stale |-> FALSE])
               ELSE \* the async function rejects with 'Not connected'
                    /\ hook' = [hook EXCEPT
                                  !.messages = Append(@, [role |-> "user",
                                                          content |-> Str(text),
                                                          functionCalled |-> NULL])]
                    /\ UNCHANGED inflight
            /\ UNCHANGED srv
       ELSE \* this.ws.send(JSON.stringify({ message: text }))
            /\ hook' = [hook EXCEPT
                          !.messages = Append(@, [role |-> "user",
                                                  content |-> Str(text),
                                                  functionCalled |-> NULL])]
            /\ srv' = [srv EXCEPT !.queued = @ + 1]
            /\ UNCHANGED inflight
    /\ UNCHANGED <<provider, chatId, vapiConnected, streams, now,
                   msgEvents, lastReply, chunkBefore, clean>>
    /\ UNCHANGED <<contId, doneStream>>
    /\ UNCHANGED connectPc
    /\ UNCHANGED notChat

\* useChat.clearMessages
ClearMessages ==
    /\ hook' = [hook EXCEPT !.messages = << >>, !.currentChunk = << >>]
    /\ chatId' = IF provider = "vapi" THEN 0 ELSE chatId
    /\ clean' = FALSE
    /\ inflight' = MarkStale(inflight)
    /\ contId' = 0
    /\ UNCHANGED <<provider, vapiConnected, streams, now, nSends, srv,
                   msgEvents, lastReply, chunkBefore, doneStream>>
    /\ UNCHANGED connectPc
    /\ UNCHANGED notChat

RemoveAt(seq, i) == SubSeq(seq, 1, i - 1) \o SubSeq(seq, i + 1, Len(seq))

\* simulateStreaming(fullText, functionCalled): const words = fullText.split(' ')
\* and one timer per word, word index at index * 50 ms; emitted is the history
\* of what the call's timers have emitted
NewStream(fullText, functionCalled) ==
    [start |-> now, next |-> 1, words |-> Split(fullText), fullText |-> fullText,
     functionCalled |-> functionCalled, emitted |-> << >>]

\* the response of POST /api/vapi-chat arrives with status 200 (the chat_id
\* Vapi gave the exchange is written as the number of the request): chat_id
\* is stored and simulateStreaming(data.response, data.function_called) sets one
\* timer per word, word i at i * 50 ms
VapiResponseOk(i, response, function_called) ==
    /\ i \in DOMAIN inflight
    /\ inflight' = RemoveAt(inflight, i)
    /\ chatId' = inflight[i].id
    /\ streams' = Append(streams, NewStream(response, function_called))
    /\ clean' = (clean /\ streams = << >>)
    /\ contId' = IF inflight[i].stale THEN contId ELSE inflight[i].id
    /\ UNCHANGED <<provider, hook, vapiConnected, now, nSends, srv,
                   msgEvents, lastReply, chunkBefore, doneStream>>
    /\ UNCHANGED connectPc
    /\ UNCHANGED notChat

\* the response is not OK, or the fetch throws: emit('error', { error })
VapiResponseError(i) ==
    /\ i \in DOMAIN inflight
    /\ inflight' = RemoveAt(inflight, i)
    /\ hook' = OnError(hook)
    /\ clean' = FALSE
    /\ UNCHANGED <<provider, chatId, vapiConnected, streams, now, nSends, srv,
                   msgEvents, lastReply, chunkBefore>>
    /\ UNCHANGED <<contId, doneStream>>
    /\ UNCHANGED connectPc
    /\ UNCHANGED notChat

\* due time of the next timer of a stream: word index * 50 ms after its start
Due(st) == st.start + (st.next - 1)

\* the stream whose timer fires next: the earliest due, the older stream first
NextStream ==
    CHOOSE i \in DOMAIN streams :
        \A j \in DOMAIN streams :
            \/ Due(streams[i]) < Due(streams[j])
            \/ (Due(streams[i]) = Due(streams[j]) /\ i <= j)

\* the events VapiChatClient emits, with the fields the handlers read
ChunkEvent(word) == [type |-> "chunk", text |-> word, fn |-> NULL]
FunctionCalledEvent(fn) == [type |-> "function_called", text |-> << >>, fn |-> fn]
MessageEvent(fullText) == [type |-> "message", text |-> fullText, fn |-> NULL]

\* no simulateStreaming call has ended yet
NoStream == [words |-> << >>, fullText |-> << >>, functionCalled |-> NULL,
             emitted |-> << >>]

\* the callback with the complete message emitted ahead of the function name
TimerEventsMessageFirst(st) ==
    <<ChunkEvent(st.words[st.next])>>
    \o (IF st.next = Len(st.words)
        THEN <<MessageEvent(st.fullText)>>
             \o (IF st.functionCalled # NULL
                 THEN <<FunctionCalledEvent(st.functionCalled)>> ELSE << >>)
        ELSE << >>)

\* what one setTimeout callback of simulateStreaming emits, in order: the chunk
\* of word index, and on the last word 'function_called' (if a function name
\* was returned) and then 'message'
TimerEvents(st) ==
    <<ChunkEvent(st.words[st.next])>>
    \o (IF st.next = Len(st.words)
        THEN (IF st.functionCalled # NULL
              THEN <<FunctionCalledEvent(st.functionCalled)>> ELSE << >>)
             \o <<MessageEvent(st.fullText)>>
        ELSE << >>)

\* emit(): the hook's handler of the event runs synchronously
Deliver(h, ev) ==
    CASE ev.type = "chunk" -> OnChunk(h, Obj(ev.text))
      [] ev.type = "function_called" -> OnFunctionCalled(h, ev.fn)
      [] ev.type = "message" -> OnMessage(h, Obj(ev.text))

RECURSIVE DeliverAll(_, _)
DeliverAll(h, events) ==
    IF events = << >> THEN h
    ELSE DeliverAll(Deliver(h, Head(events)), Tail(events))

\* one setTimeout callback of simulateStreaming
StreamTimerFires ==
    /\ streams # << >>
    /\ LET i == NextStream
           st == streams[i]
           last == (st.next = Len(st.words))
           events == TimerEvents(st)
           isMessage(ev) == ev.type = "message"
           notMessage(ev) == ev.type # "message"
       IN /\ now' = Due(st)
          /\ hook' = DeliverAll(hook, events)
          /\ streams' = IF last THEN RemoveAt(streams, i)
                        ELSE [streams EXCEPT ![i].next = @ + 1,
                                             ![i].emitted = @ \o events]
          /\ doneStream' = IF last
                           THEN [words |-> st.words, fullText |-> st.fullText,
                                 functionCalled |-> st.functionCalled,
                                 emitted |-> st.emitted \o events]
                           ELSE doneStream
          /\ IF SelectSeq(events, isMessage) # << >>
             THEN /\ msgEvents' = msgEvents + 1
                  /\ lastReply' = st.fullText
                  /\ chunkBefore' =
                        DeliverAll(hook, SelectSeq(events, notMessage)).currentChunk
             ELSE UNCHANGED <<msgEvents, lastReply, chunkBefore>>
    /\ UNCHANGED <<provider, chatId, vapiConnected, inflight, nSends, srv, clean,
                   contId>>
    /\ UNCHANGED connectPc
    /\ UNCHANGED notChat

\* simulateStreaming called on its own with any reply and function name
SimulateStreaming(fullText, functionCalled) ==
    /\ Len(streams) + msgEvents < MaxStreams
    /\ streams' = Append(streams, NewStream(fullText, functionCalled))
    /\ clean' = (clean /\ streams = << >>)
    /\ UNCHANGED <<provider, hook, chatId, vapiConnected, inflight, now, nSends,
                   srv, msgEvents, lastReply, chunkBefore, contId, doneStream>>
    /\ UNCHANGED connectPc
    /\ UNCHANGED notChat

NextStreaming ==
    \/ \E fullText \in Replies, functionCalled \in FunctionNames \cup {NULL} :
         SimulateStreaming(fullText, functionCalled)
    \/ StreamTimerFires

\* a PipecatMessage as the server sends it: the text travels in 'text'
Msg(type, status, text, function_name) ==
    [type |-> type, status |-> status, text |-> text, content |-> UNDEF,
     full_response |-> UNDEF, function_name |-> function_name]

\* PipecatChatClient.handleMessage, with the hook's handlers as the emit targets
HandleMessage(h, message) ==
    CASE message.type = "status" ->
            IF message.status = "typing" THEN [h EXCEPT !.isTyping = TRUE]
            ELSE IF message.status = "ready" THEN [h EXCEPT !.isTyping = FALSE]
            ELSE h
      [] message.type \in {"chunk", "assistant_message_chunk"} ->
            IF Truthy(Or(message.text, message.content))
            THEN OnChunk(h, Or(message.text, message.content))
            ELSE h
      [] message.type \in {"complete", "assistant_message_complete"} ->
            IF Truthy(Or(Or(message.text, message.full_response), message.content))
            THEN OnMessage(h, Or(Or(message.text, message.full_response), message.content))
            ELSE h
      [] message.type = "function_called" ->
            IF message.function_name # NULL
            THEN OnFunctionCalled(h, message.function_name)
            ELSE h
      [] message.type = "error" -> OnError(h)
      [] OTHER -> h

\* the server takes the next user message, picks its reply and announces it
\* with { type: 'status', status: 'typing' }
SrvStartsReply(reply) ==
    /\ provider = "pipecat"
    /\ srv.phase = "idle"
    /\ srv.queued > 0
    /\ srv' = [queued |-> srv.queued - 1, phase |-> "streaming",
               full |-> reply, rest |-> reply]
    /\ hook' = HandleMessage(hook, Msg("status", "typing", UNDEF, NULL))
    /\ UNCHANGED <<provider, chatId, vapiConnected, inflight, streams, now, nSends,
                   msgEvents, lastReply, chunkBefore, clean>>
    /\ UNCHANGED <<contId, doneStream>>
    /\ UNCHANGED connectPc
    /\ UNCHANGED notChat

\* { type: 'function_called', function_name } before the text of the reply
SrvFunctionCalled(fn) ==
    /\ srv.phase = "streaming"
    /\ srv.rest = srv.full
    /\ Len(hook.currentFunctionCalls) < MaxCalls
    /\ hook' = HandleMessage(hook, Msg("function_called", NULL, UNDEF, fn))
    /\ UNCHANGED <<provider, chatId, vapiConnected, inflight, streams, now, nSends,
                   srv, msgEvents, lastReply, chunkBefore, clean>>
    /\ UNCHANGED <<contId, doneStream>>
    /\ UNCHANGED connectPc
    /\ UNCHANGED notChat

\* { type: 'assistant_message_chunk', text }: the next k characters of the reply
SrvChunk(k) ==
    /\ srv.phase = "streaming"
    /\ k \in 1..Len(srv.rest)
    /\ srv' = [srv EXCEPT !.rest = SubSeq(@, k + 1, Len(@))]
    /\ hook' = HandleMessage(hook, Msg("assistant_message_chunk", NULL,
                                       Str(SubSeq(srv.rest, 1, k)), NULL))
    /\ UNCHANGED <<provider, chatId, vapiConnected, inflight, streams, now, nSends,
                   msgEvents, lastReply, chunkBefore, clean>>
    /\ UNCHANGED <<contId, doneStream>>
    /\ UNCHANGED connectPc
    /\ UNCHANGED notChat

\* { type: 'assistant_message_complete', text } once the whole reply was sent
SrvComplete ==
    /\ srv.phase = "streaming"
    /\ srv.rest = << >>
    /\ srv' = [srv EXCEPT !.phase = "done"]
    /\ hook' = HandleMessage(hook, Msg("assistant_message_complete", NULL,
                                       Str(srv.full), NULL))
    /\ IF Truthy(Str(srv.full))
       THEN /\ msgEvents' = msgEvents + 1
            /\ lastReply' = srv.full
            /\ chunkBefore' = hook.currentChunk
       ELSE UNCHANGED <<msgEvents, lastReply, chunkBefore>>
    /\ UNCHANGED <<provider, chatId, vapiConnected, inflight, streams, now, nSends,
                   clean>>
    /\ UNCHANGED <<contId, doneStream>>
    /\ UNCHANGED connectPc
    /\ UNCHANGED notChat

\* { type: 'status', status: 'ready' } closes the exchange
SrvReady ==
    /\ srv.phase = "done"
    /\ srv' = [srv EXCEPT !.phase = "idle", !.full = << >>]
    /\ hook' = HandleMessage(hook, Msg("status", "ready", UNDEF, NULL))
    /\ UNCHANGED <<provider, chatId, vapiConnected, inflight, streams, now, nSends,
                   msgEvents, lastReply, chunkBefore, clean>>
    /\ UNCHANGED <<contId, doneStream>>
    /\ UNCHANGED connectPc
    /\ UNCHANGED notChat

\* { type: 'error', error } instead of the rest of the reply
SrvError ==
    /\ srv.phase = "streaming"
    /\ srv' = [srv EXCEPT !.phase = "idle", !.full = << >>, !.rest = << >>]
    /\ hook' = HandleMessage(hook, Msg("error", NULL, UNDEF, NULL))
    /\ clean' = FALSE
    /\ UNCHANGED <<provider, chatId, vapiConnected, inflight, streams, now, nSends,
                   msgEvents, lastReply, chunkBefore>>
    /\ UNCHANGED <<contId, doneStream>>
    /\ UNCHANGED connectPc
    /\ UNCHANGED notChat

NextChat ==
    \/ HookConnect
    \/ HookDisconnect
    \/ \E text \in UserTexts : HookSendMessage(text)
    \/ ClearMessages
    \/ \E i \in DOMAIN inflight, response \in Replies,
          function_called \in FunctionNames \cup {NULL} :
            VapiResponseOk(i, response, function_called)
    \/ \E i \in DOMAIN inflight : VapiResponseError(i)
    \/ StreamTimerFires
    \/ \E reply \in Replies : SrvStartsReply(reply)
    \/ \E fn \in FunctionNames : SrvFunctionCalled(fn)
    \/ \E k \in 1..MaxLen : SrvChunk(k)
    \/ SrvComplete
    \/ SrvReady
    \/ SrvError

----------------------------------------------------------------------------
(* useChat.connect with the Pipecat client *)

\* what the connect actions of the hook leave alone
notConnect == <<provider, chatId, vapiConnected, inflight, streams, now, nSends,
                srv, msgEvents, lastReply, chunkBefore, clean, contId, doneStream,
                dashVars, authVars, routeVars>>

\* on('connected')
OnConnected(h) ==
    [h EXCEPT !.isConnected = TRUE, !.error = NULL, !.isConnecting = FALSE]

\* on('disconnected')
OnDisconnected(h) ==
    [h EXCEPT !.isConnected = FALSE, !.isConnecting = FALSE]

\* the pc of a useChat.connect call; created is the history of how the
\* createSession it last awaited ended: "none", "ok" or "threw"
Pc(pc, sock, created) == [pc |-> pc, sock |-> sock, created |-> created]

\* the catch block without the reset of isConnectingRef
ConnectCaughtKeepsRef(h, message) ==
    [h EXCEPT !.error = message, !.isConnected = FALSE]

\* the catch block of useChat.connect
ConnectCaught(h, message) ==
    [h EXCEPT !.error = message, !.isConnected = FALSE, !.isConnecting = FALSE]

\* what createSession leaves in this.sessionId: the id of the response, or
\* the earlier value when it throws
CreateSessionSets(ok) == IF ok THEN "s1" ELSE sessionId

\* useChat.connect is called: it returns at once while a connect is under
\* way or the hook is connected; otherwise it marks the connect as under
\* way, clears the error and awaits createSession(). One call runs at a time
HookConnectCalled ==
    /\ provider = "pipecat"
    /\ connectPc.pc = "idle"
    /\ ~hook.isConnecting
    /\ ~hook.isConnected
    /\ hook' = [hook EXCEPT !.isConnecting = TRUE, !.error = NULL]
    /\ connectPc' = Pc("creating", 0, connectPc.created)
    /\ UNCHANGED pipecatVars
    /\ UNCHANGED notConnect

\* createSession() returns or throws: on a session id the hook awaits the
\* client's connect(); on a throw the catch block runs and connect() is never
\* called
HookSessionReturns(ok) ==
    /\ connectPc.pc = "creating"
    /\ Len(sockState) < MaxSockets
    /\ sessionId' = CreateSessionSets(ok)
    /\ IF ok
       THEN /\ ConnectWith(sessionId')
            /\ connectPc' = IF lastConnect' = "pending"
                            THEN Pc("connecting", ws', "ok")
                            ELSE Pc("idle", 0, "ok")
            /\ hook' = IF lastConnect' \notin {"pending", "resolved"}
                       THEN ConnectCaught(hook, lastConnect')
                       ELSE hook
       ELSE /\ connectPc' = Pc("idle", 0, "threw")
            /\ hook' = ConnectCaught(hook, "Failed to create session")
            /\ UNCHANGED <<ws, sockState, sockHandlers, lastConnect>>
    /\ UNCHANGED <<isConnected, reconnectAttempts, reconnectTimeout, serverUp,
                   delayOf, schedSinceOpen>>
    /\ UNCHANGED notConnect

\* ws.onopen of the hook's client: emit('connected'), then resolve()
ListenedSocketOpens(s) ==
    /\ SocketOpensBody(s)
    /\ hook' = OnConnected(hook)
    /\ connectPc' = IF connectPc.sock = s THEN Pc("idle", 0, connectPc.created)
                    ELSE connectPc
    /\ UNCHANGED notConnect

\* a socket of the hook's client closes. A connecting one: onerror emits
\* 'error' and rejects, the catch block of the connect awaiting it runs, then
\* onclose emits 'disconnected'. An open one: onclose emits 'disconnected'
ListenedSocketCloses(s) ==
    /\ SocketClosesBody(s)
    /\ LET failed == sockState[s] = "connecting"
           h1 == IF failed THEN OnError(hook) ELSE hook
           h2 == IF failed /\ connectPc.sock = s
                 THEN ConnectCaught(h1, "Failed to connect") ELSE h1
       IN hook' = OnDisconnected(h2)
    /\ connectPc' = IF connectPc.sock = s THEN Pc("idle", 0, connectPc.created)
                    ELSE connectPc
    /\ UNCHANGED notConnect

NextConnect ==
    \/ HookConnectCalled
    \/ \E ok \in BOOLEAN : HookSessionReturns(ok)
    \/ \E s \in DOMAIN sockState : ListenedSocketOpens(s)
    \/ \E s \in DOMAIN sockState : ListenedSocketCloses(s)
    \/ ReconnectTimerFires
    \/ Connect
    \/ ServerFlips

----------------------------------------------------------------------------
(* dashboard-service (src/lib/dashboard-service.ts) over the table tb_stat *)

\* sentiment values are character strings, so that trimming and upper-casing
\* are computed
Positive == <<"o", "k">>
SentimentNA == <<"N", "/", "A">>
SentimentNull == <<"N", "U", "L", "L">>
SentimentPadded == <<" ", "n", "/", "a">>

\* timestamps are hours since the start of day 0; the clock of the browser
NowHour == 60

BaseRow == [region |-> "Piemonte", booking_code |-> NULL, duration_seconds |-> 60,
            sentiment |-> Positive, esito_chiamata |-> "COMPLETATA",
            started_at |-> 10, call_type |-> "info"]

\* the rows of the model: the base row varied in the columns one query reads
RegionRows ==
    {[BaseRow EXCEPT !.region = r, !.booking_code = b] :
        r \in {NULL, "N/A", "Piemonte"}, b \in {NULL, "BK1"}}
SentimentRows ==
    {[BaseRow EXCEPT !.sentiment = s] :
        s \in {NullStr, << >>, SentimentNA, SentimentNull, SentimentPadded, Positive}}
OutcomeRows ==
    {[BaseRow EXCEPT !.esito_chiamata = e, !.started_at = t] :
        e \in {NULL, "COMPLETATA", "TRASFERITA"}, t \in {NullInt, 10, 34}}
DurationRows ==
    {[BaseRow EXCEPT !.duration_seconds = d, !.call_type = c] :
        d \in {NullInt, 60, 90}, c \in {"info", "N/A"}}
RowDomain == RegionRows \cup SentimentRows \cup OutcomeRows \cup DurationRows

\* the parameters of the model; an absent date range, an absent call_type
NoDates == [start_date |-> NullInt, end_date |-> NullInt]
RegionParams == {NULL, "All Region", "Piemonte"}
DateParams == {NoDates, [start_date |-> 0, end_date |-> 0]}
CallTypeParams == {<< >>, <<"info">>}

\* alphabetical order of the outcome values, for ORDER BY
EsitoRank(e) == IF e = "COMPLETATA" THEN 1 ELSE 2

\* toUpperCase of one character
UpperChar(c) ==
    CASE c = "n" -> "N" [] c = "a" -> "A" [] c = "u" -> "U" [] c = "l" -> "L"
      [] c = "o" -> "O" [] c = "k" -> "K" [] OTHER -> c
Upper(s) == [i \in 1..Len(s) |-> UpperChar(s[i])]

\* new Date(started_at).toISOString().split('T')[0]: the day of the timestamp
IsoDate(started_at) == started_at \div 24

\* n / d rounded to the nearest integer, as toFixed rounds
RoundDiv(n, d) == (2 * n + d) \div (2 * d)

RECURSIVE SumSeq(_)
SumSeq(seq) == IF seq = << >> THEN 0 ELSE Head(seq) + SumSeq(Tail(seq))

\* getBookingCount: if (params?.region && params.region !== 'All Region')
\*   url += `&region=eq....`
BookingRegionFilter(region, row) ==
    IF region # NULL /\ region # "All Region"
    THEN row.region = region
    ELSE TRUE

\* the region filter of every other query: .eq('region', region), or
\* .not('region', 'is', null).neq('region', 'N/A')
RegionFilter(region, row) ==
    IF region # NULL /\ region # "All Region"
    THEN row.region = region
    ELSE row.region # NULL /\ row.region # "N/A"

\* .gte('started_at', `${start_date}T00:00:00`).lte('started_at', `${end_date}T23:59:59`)
DateFilter(dates, row) ==
    /\ row.started_at # NullInt
    /\ row.started_at >= dates.start_date * 24
    /\ row.started_at <= dates.end_date * 24 + 23

\* .gte('started_at', <now minus days>.toISOString())
SinceFilter(days, row) ==
    /\ row.started_at # NullInt
    /\ row.started_at >= NowHour - days * 24

\* getBookingCount: the PostgREST query and the count of its Content-Range
BookingRows(region, dates) ==
    LET P(row) == /\ row.booking_code # NULL
                  /\ BookingRegionFilter(region, row)
                  /\ (dates # NoDates => DateFilter(dates, row))
    IN SelectSeq(tb_stat, P)

getBookingCount(region, dates) == Len(BookingRows(region, dates))

\* getChartData: the query and the per-day grouping over the date range
ChartRows(region, dates) ==
    LET lo == IF dates # NoDates THEN dates.start_date * 24 ELSE NowHour - 6 * 24
        hi == IF dates # NoDates THEN dates.end_date * 24 ELSE NowHour
        P(row) == /\ row.started_at # NullInt
                  /\ row.started_at >= lo
                  /\ row.started_at <= hi
                  /\ RegionFilter(region, row)
    IN SelectSeq(tb_stat, P)

Durations(rows) ==
    [i \in 1..Len(rows) |->
        IF rows[i].duration_seconds = NullInt THEN 0 ELSE rows[i].duration_seconds]

getChartData(region, dates) ==
    LET rows == ChartRows(region, dates)
        first == IF dates # NoDates THEN dates.start_date ELSE (NowHour - 6 * 24) \div 24
        last == IF dates # NoDates THEN dates.end_date ELSE NowHour \div 24
        OnDay(d) == SelectSeq(rows, LAMBDA row : IsoDate(row.started_at) = d)
    IN [i \in 1..(last - first + 1) |->
          LET d == first + i - 1
              seconds == SumSeq(Durations(OnDay(d)))
          IN [date |-> d, calls |-> Len(OnDay(d)),
              minutes |-> seconds \div 60,
              revenue |-> RoundDiv(seconds * 6, 10)]]

\* avg_duration_seconds = total_calls > 0 ? total_duration_seconds / total_calls : 0
AverageDivisor(rows) == Len(rows)

\* getDashboardStats: the query
StatsRows(region, dates, call_type) ==
    LET P(row) == /\ row.started_at # NullInt
                  /\ RegionFilter(region, row)
                  /\ (call_type # << >> =>
                        /\ \E i \in 1..Len(call_type) : row.call_type = call_type[i]
                        /\ row.call_type # "N/A")
                  /\ (dates # NoDates => DateFilter(dates, row))
    IN SelectSeq(tb_stat, P)

\* getDashboardStats: the aggregation; revenue in cents, the average in tenths
\* of a minute
getDashboardStats(region, dates, call_type) ==
    LET rows == StatsRows(region, dates, call_type)
        total_calls == Len(rows)
        total_duration_seconds == SumSeq(Durations(rows))
        divisor == AverageDivisor(rows)
    IN [total_minutes |-> total_duration_seconds \div 60,
        total_revenue |-> RoundDiv(total_duration_seconds * 6, 10),
        total_calls |-> total_calls,
        chart_data |-> getChartData(region, dates),
        avg_duration_minutes |->
            IF divisor > 0
            THEN RoundDiv(total_duration_seconds, 6 * divisor)
            ELSE 0]

\* the elements of a sequence, each once, in the order of first appearance:
\* the key order of a JavaScript object filled in that order
RECURSIVE Distinct(_)
Distinct(seq) ==
    IF seq = << >> THEN << >>
    ELSE LET d == Distinct(SubSeq(seq, 1, Len(seq) - 1))
             x == seq[Len(seq)]
         IN IF \E i \in 1..Len(d) : d[i] = x THEN d ELSE Append(d, x)

Count(seq, x) == Len(SelectSeq(seq, LAMBDA y : y = x))

\* the sequence with x put in front of the first element of a smaller date:
\* one step of a stable sort by date, descending
RECURSIVE InsertByDateDesc(_, _)
InsertByDateDesc(sorted, x) ==
    IF sorted = << >> THEN <<x>>
    ELSE IF Head(sorted).date < x.date THEN <<x>> \o sorted
    ELSE <<Head(sorted)>> \o InsertByDateDesc(Tail(sorted), x)

\* trendData.sort((a, b) => b.date.localeCompare(a.date)): Array.prototype.sort
\* is stable, entries of one date keep their order
RECURSIVE SortByDateDesc(_)
SortByDateDesc(entries) ==
    IF entries = << >> THEN << >>
    ELSE InsertByDateDesc(SortByDateDesc(SubSeq(entries, 1, Len(entries) - 1)),
                          entries[Len(entries)])

\* grouped[date][key] = (grouped[date][key] || 0) + 1 over pairs <<date, key>>,
\* then the nested Object.entries(...).forEach that flattens it
RECURSIVE FlattenDates(_, _)
FlattenDates(dates, pairs) ==
    IF dates = << >> THEN << >>
    ELSE LET date == Head(dates)
             keys == Distinct([i \in 1..Len(SelectSeq(pairs, LAMBDA q : q[1] = date)) |->
                                 SelectSeq(pairs, LAMBDA q : q[1] = date)[i][2]])
         IN [i \in 1..Len(keys) |->
                [date |-> date, key |-> keys[i], count |-> Count(pairs, <<date, keys[i]>>)]]
            \o FlattenDates(Tail(dates), pairs)

GroupByDateAndKey(pairs) ==
    FlattenDates(Distinct([i \in 1..Len(pairs) |-> pairs[i][1]]), pairs)

\* getCallOutcomeTrend: the query
OutcomeTrendRows(region, dates) ==
    LET P(row) == /\ row.esito_chiamata # NULL
                  /\ row.esito_chiamata # ""
                  /\ row.esito_chiamata # "NULL"
                  /\ RegionFilter(region, row)
                  /\ IF dates # NoDates THEN DateFilter(dates, row) ELSE SinceFilter(30, row)
    IN SelectSeq(tb_stat, P)

\* getCallOutcomeTrend: grouping, flattening, sort by date
getCallOutcomeTrend(region, dates) ==
    LET rows == OutcomeTrendRows(region, dates)
        pairs == [i \in 1..Len(rows) |->
                    <<IsoDate(rows[i].started_at), rows[i].esito_chiamata>>]
        trendData == SortByDateDesc(GroupByDateAndKey(pairs))
    IN [data |-> [i \in 1..Len(trendData) |->
                    [date |-> trendData[i].date,
                     esito_chiamata |-> trendData[i].key,
                     count |-> trendData[i].count]],
        total_entries |-> Len(trendData)]

\* getSentimentTrend: the query
SentimentTrendRows(region, dates) ==
    LET P(row) == /\ row.sentiment # NullStr
                  /\ row.sentiment # << >>
                  /\ row.sentiment # SentimentNull
                  /\ RegionFilter(region, row)
                  /\ IF dates # NoDates THEN DateFilter(dates, row) ELSE SinceFilter(30, row)
    IN SelectSeq(tb_stat, P)

\* getSentimentTrend: grouping, flattening, sort by date
getSentimentTrend(region, dates) ==
    LET rows == SentimentTrendRows(region, dates)
        pairs == [i \in 1..Len(rows) |->
                    <<IsoDate(rows[i].started_at), rows[i].sentiment>>]
        trendData == SortByDateDesc(GroupByDateAndKey(pairs))
    IN [data |-> [i \in 1..Len(trendData) |->
                    [date |-> trendData[i].date,
                     sentiment |-> trendData[i].key,
                     count |-> trendData[i].count]],
        total_entries |-> Len(trendData)]

\* getAdditionalStats: the query
AdditionalRows(region, dates) ==
    LET P(row) == /\ row.started_at # NullInt
                  /\ RegionFilter(region, row)
                  /\ IF dates # NoDates THEN DateFilter(dates, row) ELSE SinceFilter(27, row)
    IN SelectSeq(tb_stat, P)

\* getAdditionalStats: sentiment_stats (action_stats and hourly_stats read
\* columns this model leaves out); if (row.sentiment) keeps the non-empty
\* strings
getAdditionalStats(region, dates) ==
    LET rows == SelectSeq(AdditionalRows(region, dates),
                          LAMBDA row : row.sentiment # NullStr /\ row.sentiment # << >>)
        values == [i \in 1..Len(rows) |-> rows[i].sentiment]
        keys == Distinct(values)
    IN [sentiment_stats |-> [i \in 1..Len(keys) |->
                               [sentiment |-> keys[i], count |-> Count(values, keys[i])]]]

\* getCallOutcomeStats: the query
OutcomeStatsRows(region, dates) ==
    LET P(row) == /\ row.esito_chiamata # NULL
                  /\ row.esito_chiamata # ""
                  /\ row.esito_chiamata # "NULL"
                  /\ RegionFilter(region, row)
                  /\ (dates # NoDates => DateFilter(dates, row))
    IN SelectSeq(tb_stat, P)

\* getCallOutcomeStats: outcome_stats and the total (the motivazione column is
\* left out of this model)
getCallOutcomeStats(region, dates) ==
    LET rows == OutcomeStatsRows(region, dates)
        values == [i \in 1..Len(rows) |-> rows[i].esito_chiamata]
        keys == Distinct(values)
    IN [outcome_stats |-> [i \in 1..Len(keys) |->
                             [esito_chiamata |-> keys[i], count |-> Count(values, keys[i])]],
        total_calls_with_outcome |-> Len(rows)]

\* one step of a stable sort by started_at, descending
RECURSIVE InsertByStartedDesc(_, _)
InsertByStartedDesc(sorted, x) ==
    IF sorted = << >> THEN <<x>>
    ELSE IF Head(sorted).started_at < x.started_at THEN <<x>> \o sorted
    ELSE <<Head(sorted)>> \o InsertByStartedDesc(Tail(sorted), x)

\* .order('started_at', { ascending: false })
RECURSIVE OrderByStartedDesc(_)
OrderByStartedDesc(rows) ==
    IF rows = << >> THEN << >>
    ELSE InsertByStartedDesc(OrderByStartedDesc(SubSeq(rows, 1, Len(rows) - 1)),
                             rows[Len(rows)])

\* getCalls: the query without its range
CallsRows(region, dates) ==
    LET P(row) == /\ row.started_at # NullInt
                  /\ RegionFilter(region, row)
                  /\ (dates # NoDates => DateFilter(dates, row))
    IN SelectSeq(tb_stat, P)

\* getCalls: the page of rows and the pagination record
getCalls(limitParam, offsetParam, region, dates) ==
    LET limit == IF limitParam = NullInt THEN 100 ELSE limitParam
        offset == IF offsetParam = NullInt THEN 0 ELSE offsetParam
        all == OrderByStartedDesc(CallsRows(region, dates))
        page == SubSeq(all, offset + 1, Min(offset + limit, Len(all)))
        total_calls == Len(all)
    IN [calls |-> [i \in 1..Len(page) |->
                     [started_at |-> page[i].started_at,
                      duration_seconds |-> IF page[i].duration_seconds = NullInt THEN 0
                                           ELSE page[i].duration_seconds,
                      sentiment |-> IF page[i].sentiment \in {NullStr, << >>}
                                    THEN SentimentNA ELSE page[i].sentiment,
                      esito_chiamata |-> page[i].esito_chiamata]],
        pagination |-> [total_calls |-> total_calls,
                        total_pages |-> (total_calls + limit - 1) \div limit,
                        current_page |-> (offset \div limit) + 1,
                        has_next |-> offset + limit < total_calls,
                        has_previous |-> offset > 0,
                        limit |-> limit,
                        offset |-> offset]]

NoCall == [fn |-> "none", region |-> NULL, dates |-> NoDates, error |-> FALSE]

\* a call is recorded in tb_stat by the voice agent
InsertRow(row) ==
    /\ Len(tb_stat) < MaxRows
    /\ tb_stat' = Append(tb_stat, row)
    /\ UNCHANGED <<call, matched, result>>
    /\ UNCHANGED notDash

Called(fn, region, dates, ok) ==
    call' = [fn |-> fn, region |-> region, dates |-> dates, error |-> ~ok]

\* each function returns a default value from its catch block when the query
\* fails
QueryBookingCount(region, dates, ok) ==
    /\ Called("getBookingCount", region, dates, ok)
    /\ matched' = IF ok THEN <<BookingRows(region, dates)>> ELSE << >>
    /\ result' = IF ok THEN getBookingCount(region, dates) ELSE 0
    /\ UNCHANGED tb_stat
    /\ UNCHANGED notDash

QueryDashboardStats(region, dates, call_type, ok) ==
    /\ Called("getDashboardStats", region, dates, ok)
    /\ matched' = IF ok THEN <<StatsRows(region, dates, call_type),
                               ChartRows(region, dates)>>
                  ELSE << >>
    /\ result' = IF ok THEN getDashboardStats(region, dates, call_type)
                 ELSE [total_minutes |-> 0, total_revenue |-> 0, total_calls |-> 0,
                       chart_data |-> << >>, avg_duration_minutes |-> 0]
    /\ UNCHANGED tb_stat
    /\ UNCHANGED notDash

QueryCalls(limit, offset, region, dates, ok) ==
    /\ Called("getCalls", region, dates, ok)
    /\ matched' = IF ok THEN <<CallsRows(region, dates)>> ELSE << >>
    /\ result' = IF ok THEN getCalls(limit, offset, region, dates)
                 ELSE [calls |-> << >>,
                       pagination |-> [total_calls |-> 0, total_pages |-> 0,
                                       current_page |-> 1, has_next |-> FALSE,
                                       has_previous |-> FALSE,
                                       limit |-> IF limit = NullInt THEN 100 ELSE limit,
                                       offset |-> IF offset = NullInt THEN 0 ELSE offset]]
    /\ UNCHANGED tb_stat
    /\ UNCHANGED notDash

QueryAdditionalStats(region, dates, ok) ==
    /\ Called("getAdditionalStats", region, dates, ok)
    /\ matched' = IF ok THEN <<AdditionalRows(region, dates)>> ELSE << >>
    /\ result' = IF ok THEN getAdditionalStats(region, dates)
                 ELSE [sentiment_stats |-> << >>]
    /\ UNCHANGED tb_stat
    /\ UNCHANGED notDash

QueryCallOutcomeTrend(region, dates, ok) ==
    /\ Called("getCallOutcomeTrend", region, dates, ok)
    /\ matched' = IF ok THEN <<OutcomeTrendRows(region, dates)>> ELSE << >>
    /\ result' = IF ok THEN getCallOutcomeTrend(region, dates)
                 ELSE [data |-> << >>, total_entries |-> 0]
    /\ UNCHANGED tb_stat
    /\ UNCHANGED notDash

QuerySentimentTrend(region, dates, ok) ==
    /\ Called("getSentimentTrend", region, dates, ok)
    /\ matched' = IF ok THEN <<SentimentTrendRows(region, dates)>> ELSE << >>
    /\ result' = IF ok THEN getSentimentTrend(region, dates)
                 ELSE [data |-> << >>, total_entries |-> 0]
    /\ UNCHANGED tb_stat
    /\ UNCHANGED notDash

QueryCallOutcomeStats(region, dates, ok) ==
    /\ Called("getCallOutcomeStats", region, dates, ok)
    /\ matched' = IF ok THEN <<OutcomeStatsRows(region, dates)>> ELSE << >>
    /\ result' = IF ok THEN getCallOutcomeStats(region, dates)
                 ELSE [outcome_stats |-> << >>, total_calls_with_outcome |-> 0]
    /\ UNCHANGED tb_stat
    /\ UNCHANGED notDash

NextDash ==
    \/ \E row \in RowDomain : InsertRow(row)
    \/ \E region \in RegionParams, dates \in DateParams, ok \in BOOLEAN :
         \/ QueryBookingCount(region, dates, ok)
         \/ \E call_type \in CallTypeParams :
              QueryDashboardStats(region, dates, call_type, ok)
         \/ \E limit \in {NullInt, 1}, offset \in {NullInt, 1} :
              QueryCalls(limit, offset, region, dates, ok)
         \/ QueryAdditionalStats(region, dates, ok)
         \/ QueryCallOutcomeTrend(region, dates, ok)
         \/ QuerySentimentTrend(region, dates, ok)
         \/ QueryCallOutcomeStats(region, dates, ok)

----------------------------------------------------------------------------
(* AuthChecker (src/components/auth-checker.tsx) *)

Mounts == 1..MaxMounts

\* the catch block with a logout in it
OnVerifyThrowsLogout(m) ==
    /\ localStorage' = [auth_token |-> NULL, current_user |-> NULL]
    /\ authLog' = authLog \o <<"removeItem auth_token", "removeItem current_user",
                               "push /login">>

\* catch (error) { console.error(...) }: on a network error, no logout
OnVerifyThrows(m) ==
    UNCHANGED <<localStorage, authLog>>

\* the !response.ok branch with the second removeItem forgotten
OnVerifyRejectedKeepsUser(m) ==
    /\ localStorage' = [localStorage EXCEPT !.auth_token = NULL]
    /\ authLog' = authLog \o <<"removeItem auth_token", "push /login">>

\* if (!response.ok): both keys are removed, then router.push("/login")
OnVerifyRejected(m) ==
    /\ localStorage' = [auth_token |-> NULL, current_user |-> NULL]
    /\ authLog' = authLog \o <<"removeItem auth_token", "removeItem current_user",
                               "push /login">>

\* the effect runs on mount: checkAuth reads the token and either redirects
\* or issues the auth-verify request
Mount(m) ==
    /\ checker[m].pc = "unmounted"
    /\ IF localStorage.auth_token \in {NULL, ""}
       THEN /\ checker' = [checker EXCEPT ![m].pc = "done"]
            /\ authLog' = Append(authLog, "push /login")
       ELSE /\ checker' = [checker EXCEPT ![m].pc = "verifying",
                                          ![m].token = localStorage.auth_token]
            /\ authLog' = Append(authLog, "fetch auth-verify")
    /\ UNCHANGED <<localStorage, fetchResult>>
    /\ UNCHANGED notAuth

\* the request resolves with an OK response, resolves with a non-OK response,
\* or throws
VerifySettles(m, outcome) ==
    /\ checker[m].pc = "verifying"
    /\ checker' = [checker EXCEPT ![m].pc = "done"]
    /\ fetchResult' = [fetchResult EXCEPT ![m] = outcome]
    /\ CASE outcome = "ok" -> UNCHANGED <<localStorage, authLog>>
         [] outcome = "not_ok" -> OnVerifyRejected(m)
         [] outcome = "throws" -> OnVerifyThrows(m)
    /\ UNCHANGED notAuth

NextAuth ==
    \/ \E m \in Mounts : Mount(m)
    \/ \E m \in Mounts, outcome \in {"ok", "not_ok", "throws"} : VerifySettles(m, outcome)

----------------------------------------------------------------------------
(* POST /api/vapi-chat (src/app/api/vapi-chat/route.ts:27-163) *)

\* process.env: each variable is undefined, empty or set
EnvValues == {NULL, "", "set"}
EnvNames == {"VAPI_API_KEY", "ASSISTANT_ID", "VAPI_CHAT_URL"}

\* request bodies: one that request.json() cannot parse, and objects whose
\* message is missing or a string and whose previous_chat_id is missing or an id
Bodies ==
    [valid : {FALSE}, message : {NullStr}, previous_chat_id : {NULL}]
    \cup [valid : {TRUE}, message : {NullStr} \cup Strings(MaxMessage),
          previous_chat_id : {NULL, "chat0"}]

\* items of the output array of a Vapi response: role, content (missing or a
\* string) and the name of the first named tool call (none: null)
OutputItems ==
    {[role |-> "user", content |-> <<" ">>, tool |-> NULL],
     [role |-> "assistant", content |-> <<"a">>, tool |-> NULL],
     [role |-> "assistant", content |-> NullStr, tool |-> "knowledge_base_new"],
     [role |-> "assistant", content |-> << >>, tool |-> "route_to_booking"]}

Outputs == UNION {[1..k -> OutputItems] : k \in 0..MaxItems}

\* what the fetch of the Vapi API yields: a 200 with data, another status,
\* or a network error
VapiOutcomes ==
    [kind : {"ok"}, status : {200}, output : Outputs]
    \cup [kind : {"status"}, status : {401, 500}, output : {<< >>}]
    \cup [kind : {"throws"}, status : {0}, output : {<< >>}]

NoResponse == [status |-> 0, error |-> NULL, chat_id |-> NULL,
               response |-> NullStr, function_called |-> NULL]

NoPayload == [assistantId |-> NULL, input |-> NullStr, previousChatId |-> NULL]

\* NextResponse.json({ error }, { status })
ErrorJson(status, error) == [NoResponse EXCEPT !.status = status, !.error = error]

\* !message || !message.trim()
MessageMissing(message) ==
    message = NullStr \/ message = << >> \/ Trim(message) = << >>

\* the check of the environment with VAPI_CHAT_URL left out
EnvMissingNoUrl(e) ==
    \/ e.VAPI_API_KEY \in {NULL, ""}
    \/ e.ASSISTANT_ID \in {NULL, ""}

\* !VAPI_API_KEY || !ASSISTANT_ID || !VAPI_CHAT_URL
EnvMissing(e) ==
    \/ e.VAPI_API_KEY \in {NULL, ""}
    \/ e.ASSISTANT_ID \in {NULL, ""}
    \/ e.VAPI_CHAT_URL \in {NULL, ""}

\* the forward loop over output: the content of the last assistant item that
\* has one, '' when there is none (the reverse loop finds nothing more)
RECURSIVE AssistantResponse(_)
AssistantResponse(output) ==
    IF output = << >> THEN << >>
    ELSE LET item == output[Len(output)]
         IN IF item.role = "assistant" /\ item.content \notin {NullStr, << >>}
            THEN item.content
            ELSE AssistantResponse(SubSeq(output, 1, Len(output) - 1))

\* the forward loop over output: the first named tool call of the last
\* assistant item that has one
RECURSIVE FunctionCalledIn(_)
FunctionCalledIn(output) ==
    IF output = << >> THEN NULL
    ELSE LET item == output[Len(output)]
         IN IF item.role = "assistant" /\ item.tool # NULL
            THEN item.tool
            ELSE FunctionCalledIn(SubSeq(output, 1, Len(output) - 1))

\* function_mapping[function_called] || function_called
FunctionMapping(fn) ==
    CASE fn = "call_graph" -> "GRAPH"
      [] fn = "knowledge_base_new" -> "RAG"
      [] OTHER -> fn

\* the handler from the Vapi fetch on
AfterFetch(outcome) ==
    CASE outcome.kind = "throws" -> ErrorJson(500, "fetch failed")
      [] outcome.kind = "status" ->
            ErrorJson(outcome.status, "Vapi API returned status")
      [] outcome.kind = "ok" ->
            [status |-> 200, error |-> NULL, chat_id |-> "chat1",
             response |-> AssistantResponse(outcome.output),
             function_called |-> FunctionMapping(FunctionCalledIn(outcome.output))]

\* whether the handler gets as far as the fetch of the Vapi API
ReachesVapi(body, e) ==
    body.valid /\ ~MessageMissing(body.message) /\ ~EnvMissing(e)

\* the response of POST
PostResponse(body, e, outcome) ==
    IF ~body.valid THEN ErrorJson(500, "Unexpected end of JSON input")
    ELSE IF MessageMissing(body.message) THEN ErrorJson(400, "Message is required")
    ELSE IF EnvMissing(e) THEN ErrorJson(500, "Server configuration error")
    ELSE AfterFetch(outcome)

\* one request handled by POST
Post(body, outcome) ==
    /\ ReachesVapi(body, env) => vapiSent < MaxPosts
    /\ request' = body
    /\ nextResponse' = PostResponse(body, env, outcome)
    /\ IF ReachesVapi(body, env)
       THEN /\ vapiSent' = vapiSent + 1
            /\ vapiPayload' = [assistantId |-> env.ASSISTANT_ID,
                               input |-> body.message,
                               previousChatId |-> body.previous_chat_id]
       ELSE UNCHANGED <<vapiSent, vapiPayload>>
    /\ UNCHANGED env
    /\ UNCHANGED notRoute

\* the deployment sets or unsets one variable of the environment
Configure(k, v) ==
    /\ env' = [env EXCEPT ![k] = v]
    /\ UNCHANGED <<request, nextResponse, vapiSent, vapiPayload>>
    /\ UNCHANGED notRoute

NextRoute ==
    \/ \E body \in Bodies, outcome \in VapiOutcomes : Post(body, outcome)
    \/ \E k \in EnvNames, v \in EnvValues : Configure(k, v)

----------------------------------------------------------------------------
(* Specifications *)

\* the state after construction: an empty hook, an empty tb_stat, no
\* AuthChecker mounted. With opened, the Pipecat provider has been through
\* createSession, connect and onopen: its socket is open and the hook has
\* seen 'connected'; the Vapi client starts disconnected
InitWith(providers, opened, storages) ==
    /\ provider \in providers
    /\ sessionId = IF opened /\ provider = "pipecat" THEN "s1" ELSE NULL
    /\ ws = IF opened /\ provider = "pipecat" THEN 1 ELSE 0
    /\ isConnected = (opened /\ provider = "pipecat")
    /\ reconnectAttempts = 0
    /\ reconnectTimeout = "null"
    /\ sockState = IF opened /\ provider = "pipecat" THEN <<"open">> ELSE << >>
    /\ sockHandlers = IF opened /\ provider = "pipecat" THEN <<TRUE>> ELSE << >>
    /\ serverUp = TRUE
    /\ delayOf = [n \in 1..maxReconnectAttempts |-> 0]
    /\ schedSinceOpen = 0
    /\ lastConnect = "none"
    /\ hook = [isConnected |-> (opened /\ provider = "pipecat"),
               isConnecting |-> FALSE,
               isTyping |-> FALSE,
               error |-> NULL,
               messages |-> << >>,
               currentChunk |-> << >>,
               currentFunctionCalls |-> << >>]
    /\ chatId = 0
    /\ vapiConnected = FALSE
    /\ inflight = << >>
    /\ streams = << >>
    /\ now = 0
    /\ nSends = 0
    /\ srv = [queued |-> 0, phase |-> "idle", full |-> << >>, rest |-> << >>]
    /\ msgEvents = 0
    /\ lastReply = << >>
    /\ chunkBefore = << >>
    /\ clean = TRUE
    /\ connectPc = Pc("idle", 0, "none")
    /\ contId = 0
    /\ doneStream = NoStream
    /\ tb_stat = << >>
    /\ call = NoCall
    /\ matched = << >>
    /\ result = 0
    /\ localStorage \in storages
    /\ checker = [m \in Mounts |-> [pc |-> "unmounted", token |-> NULL]]
    /\ fetchResult = [m \in Mounts |-> "none"]
    /\ authLog = << >>
    /\ env = [VAPI_API_KEY |-> "set", ASSISTANT_ID |-> "set", VAPI_CHAT_URL |-> "set"]
    /\ request = [valid |-> FALSE, message |-> NullStr, previous_chat_id |-> NULL]
    /\ nextResponse = NoResponse
    /\ vapiSent = 0
    /\ vapiPayload = NoPayload

\* what localStorage may hold when the dashboard layout mounts
Storages == [auth_token : {NULL, "", "token"}, current_user : {NULL, "user"}]
NoStorage == {[auth_token |-> NULL, current_user |-> NULL]}

\* the Pipecat client's connection life cycle
SpecPipecat == InitWith({"pipecat"}, FALSE, NoStorage) /\ [][NextPipecat]_vars

\* the chat hook over either provider
SpecChat == InitWith({"pipecat", "vapi"}, TRUE, NoStorage) /\ [][NextChat]_vars

\* useChat.connect over the Pipecat client
SpecConnect == InitWith({"pipecat"}, FALSE, NoStorage) /\ [][NextConnect]_vars

\* simulateStreaming and its timers, the hook listening
SpecStreaming == InitWith({"vapi"}, FALSE, NoStorage) /\ [][NextStreaming]_vars

\* the route handler over every body, environment and Vapi answer
SpecRoute == InitWith({"pipecat"}, FALSE, NoStorage) /\ [][NextRoute]_vars

\* the dashboard queries over every table of the model
SpecDash == InitWith({"pipecat"}, FALSE, NoStorage) /\ [][NextDash]_vars

\* AuthChecker over every content of localStorage
SpecAuth == InitWith({"pipecat"}, FALSE, Storages) /\ [][NextAuth]_vars

----------------------------------------------------------------------------
(* Properties of the Pipecat reconnection *)

SocketOpened ==
    \E s \in DOMAIN sockState : sockState[s] = "connecting" /\ sockState'[s] = "open"

\* C1: reconnectAttempts never exceeds maxReconnectAttempts (3); every
\* successful open puts the counter back to 0; between two successful opens
\* at most 3 reconnects are scheduled, and once 3 were scheduled no further
\* timer is set until a socket opens
ReconnectCapped ==
    /\ [](/\ reconnectAttempts <= maxReconnectAttempts
          /\ schedSinceOpen <= maxReconnectAttempts)
    /\ [][SocketOpened => reconnectAttempts' = 0]_vars
    /\ [][(schedSinceOpen = maxReconnectAttempts /\ ~SocketOpened)
            => /\ schedSinceOpen' = schedSinceOpen
               /\ (reconnectTimeout' = "pending" => reconnectTimeout = "pending")]_vars

\* the server stayed down after a loss: three reconnects were scheduled, the
\* third one's socket failed too and nothing is pending any more
ReconnectGaveUp ==
    /\ ~serverUp
    /\ ~isConnected
    /\ schedSinceOpen = 3
    /\ reconnectAttempts = 3
    /\ reconnectTimeout = "fired"
    /\ sockState = <<"lost", "failed", "failed", "failed">>

\* C12: from disconnect() until createSession() returns a new session (the
\* span in which sessionId is null) isConnected stays false, no reconnect
\* timer is pending and no WebSocket is created; disconnect() leaves the
\* socket it closed without handlers, and a socket without handlers changes
\* nothing any more
DisconnectPreventsReconnection ==
    /\ [](sessionId = NULL => (~isConnected /\ reconnectTimeout # "pending"))
    /\ [][sessionId = NULL => Len(sockState') = Len(sockState)]_vars
    /\ [][(ws # 0 /\ ws' = 0) => (~sockHandlers'[ws] /\ sockState'[ws] = "closed")]_vars
    /\ [][\A s \in DOMAIN sockState :
            ~sockHandlers[s] => (~sockHandlers'[s] /\ sockState'[s] = sockState[s])]_vars

\* C13: the step in which createSession returns to useChat.connect is the
\* only one in which the hook's connect creates a WebSocket, and it does so
\* only with the session id returned; when createSession throws, that step
\* creates no WebSocket, sets error, leaves isConnected false and leaves the
\* next useChat.connect call free to run; and whoever calls it, connect()
\* without a session creates no socket and rejects with the 'No session ID'
\* message
SessionBeforeSocket ==
    /\ [][(connectPc.pc = "creating" /\ connectPc'.pc # "creating") =>
            /\ connectPc'.created = "ok" =>
                 /\ sessionId' # NULL
                 /\ connectPc'.pc = "connecting" =>
                      /\ Len(sockState') = Len(sockState) + 1
                      /\ sockState'[connectPc'.sock] = "connecting"
            /\ connectPc'.created = "threw" =>
                 /\ sockState' = sockState
                 /\ hook'.error # NULL
                 /\ ~hook'.isConnected
                 /\ ~hook'.isConnecting
                 /\ connectPc'.pc = "idle"]_vars
    /\ [][(connectPc'.pc = "connecting" /\ connectPc' # connectPc) =>
            (connectPc.pc = "creating" /\ sessionId' # NULL)]_vars
    /\ [][sessionId' = NULL =>
            /\ sockState' = sockState
            /\ lastConnect' \in {lastConnect, NoSessionError}]_vars

\* createSession threw in useChat.connect and no socket exists; connect()
\* called without a session was rejected; the hook shows the error and a new
\* connect may start
CreateSessionThrew ==
    /\ connectPc = Pc("idle", 0, "threw")
    /\ sessionId = NULL
    /\ sockState = << >>
    /\ lastConnect = NoSessionError
    /\ hook.error = "Failed to create session"
    /\ ~hook.isConnected
    /\ ~hook.isConnecting

\* C2 as stated: the delay scheduled before a reconnect is the same value for
\* attempts 1, 2 and 3
BackoffFixed ==
    \A n, m \in DOMAIN delayOf :
        (delayOf[n] # 0 /\ delayOf[m] # 0) => delayOf[n] = delayOf[m]

\* C2 as amended: the delay doubles with the attempt number, 1000 ms before
\* attempt 1, 2000 ms before attempt 2 and 4000 ms before attempt 3
BackoffDoubles ==
    /\ delayOf[1] \in {0, 1000}
    /\ delayOf[2] \in {0, 2000}
    /\ delayOf[3] \in {0, 4000}

\* all three attempts have been scheduled
AllAttemptsScheduled ==
    delayOf[1] # 0 /\ delayOf[2] # 0 /\ delayOf[3] # 0

----------------------------------------------------------------------------
(* Properties of the chat hook *)

\* C3: when the 'message' event of a reply arrives, and only chunk and
\* message events of one reply at a time have touched currentChunk, the
\* chunks delivered before it have made currentChunk the full reply text,
\* with either provider
ChunksAddUpToReply ==
    (msgEvents > 0 /\ clean) => chunkBefore = lastReply

\* C4: every 'message' event appends exactly one assistant message whose
\* content is the full reply text as a string, empties currentChunk and
\* clears isTyping
MessageEventAppendsReply ==
    [][msgEvents' = msgEvents + 1 =>
        /\ Len(hook'.messages) = Len(hook.messages) + 1
        /\ SubSeq(hook'.messages, 1, Len(hook.messages)) = hook.messages
        /\ hook'.messages[Len(hook'.messages)].role = "assistant"
        /\ hook'.messages[Len(hook'.messages)].content = Str(lastReply')
        /\ hook'.currentChunk = << >>
        /\ ~hook'.isTyping]_vars

\* C11: every request sendMessage issues carries as previous_chat_id the
\* chat_id of the last answered request among those issued since the last
\* connect, disconnect or clearConversation, and null (0) when there is none
ContinuityKept ==
    [][Len(inflight') = Len(inflight) + 1 =>
        inflight'[Len(inflight')].previous_chat_id = contId]_vars

\* the chunks of the first n words, in word order
ChunksOf(words, n) == [k \in 1..n |-> ChunkEvent(words[k])]

\* C15: a simulateStreaming call that has fired k timers has emitted the
\* chunks of its first k words and nothing else; one that ran to its end has
\* emitted one chunk per space-separated word of the reply in word order,
\* then 'function_called' if a function name was returned, then one
\* 'message' with the full text
StreamingOrder ==
    /\ \A i \in DOMAIN streams :
         /\ streams[i].words = Split(streams[i].fullText)
         /\ streams[i].emitted = ChunksOf(streams[i].words, streams[i].next - 1)
    /\ doneStream # NoStream =>
         /\ doneStream.words = Split(doneStream.fullText)
         /\ doneStream.emitted =
              ChunksOf(doneStream.words, Len(doneStream.words))
              \o (IF doneStream.functionCalled # NULL
                  THEN <<FunctionCalledEvent(doneStream.functionCalled)>>
                  ELSE << >>)
              \o <<MessageEvent(doneStream.fullText)>>

\* a two-word reply with a function name ran to its end: two chunks, the
\* function name and the message were emitted and the hook holds the message
TwoWordsStreamed ==
    /\ doneStream.fullText = <<"a", " ", "a">>
    /\ doneStream.functionCalled = "knowledge_base_new"
    /\ Len(doneStream.emitted) = 4
    /\ streams = << >>
    /\ Len(hook.messages) = 1

----------------------------------------------------------------------------
(* Properties of the dashboard queries *)

\* Rule 4: region IS NOT NULL AND region != 'N/A' for 'All Region' (or no
\* region), region = p_region otherwise
RegionRule(p_region, region) ==
    IF p_region \in {NULL, "All Region"}
    THEN region \notin {NULL, "N/A"}
    ELSE region = p_region

\* C5: whatever the function, the rows a query with a region parameter counts
\* satisfy the region rule
RegionRuleEverywhere ==
    (call.fn # "none" /\ ~call.error) =>
        \A q \in 1..Len(matched) : \A i \in 1..Len(matched[q]) :
            RegionRule(call.region, matched[q][i].region)

\* Rule 5: UPPER(TRIM(sentiment)) NOT IN ('N/A', 'NULL', '')
ValidSentiment(sentiment) ==
    Upper(Trim(sentiment)) \notin {SentimentNA, SentimentNull, << >>}

\* C6: no entry of sentiment_stats and no entry of the sentiment trend has a
\* sentiment that is 'N/A', 'NULL' or empty once trimmed and upper-cased
NoInvalidSentiment ==
    /\ call.fn = "getAdditionalStats" =>
         \A i \in 1..Len(result.sentiment_stats) :
            ValidSentiment(result.sentiment_stats[i].sentiment)
    /\ call.fn = "getSentimentTrend" =>
         \A i \in 1..Len(result.data) : ValidSentiment(result.data[i].sentiment)

\* C7: getCallOutcomeTrend returns one entry per distinct (date,
\* esito_chiamata) pair of the returned rows, with the number of rows of the
\* pair as its count, total_entries entries, ordered by date descending and
\* within one date by esito_chiamata
OutcomeTrendMirrorsGroupBy ==
    (call.fn = "getCallOutcomeTrend" /\ ~call.error) =>
        LET rows == matched[1]
            data == result.data
            PairOf(row) == <<IsoDate(row.started_at), row.esito_chiamata>>
            pairs == {PairOf(rows[i]) : i \in 1..Len(rows)}
        IN /\ {<<data[i].date, data[i].esito_chiamata>> : i \in 1..Len(data)} = pairs
           /\ Len(data) = Cardinality(pairs)
           /\ \A i \in 1..Len(data) :
                data[i].count =
                    Cardinality({j \in 1..Len(rows) :
                        PairOf(rows[j]) = <<data[i].date, data[i].esito_chiamata>>})
           /\ result.total_entries = Len(data)
           /\ \A i, j \in 1..Len(data) :
                i < j => \/ data[i].date > data[j].date
                         \/ /\ data[i].date = data[j].date
                            /\ EsitoRank(data[i].esito_chiamata)
                                 < EsitoRank(data[j].esito_chiamata)

\* C8: total_calls is the number of matching rows and the average duration
\* is COALESCE(AVG(duration_seconds), 0): the sum of the non-null durations
\* over the number of rows with a non-null duration, 0 when there is none
StatsAverageMirrorsSql ==
    (call.fn = "getDashboardStats" /\ ~call.error) =>
        LET rows == matched[1]
            nonNull == SelectSeq(rows, LAMBDA row : row.duration_seconds # NullInt)
            sum == SumSeq([i \in 1..Len(nonNull) |-> nonNull[i].duration_seconds])
        IN /\ result.total_calls = Len(rows)
           /\ result.avg_duration_minutes =
                IF Len(nonNull) = 0 THEN 0 ELSE RoundDiv(sum, 6 * Len(nonNull))

----------------------------------------------------------------------------
(* Properties of AuthChecker *)

Logout == <<"removeItem auth_token", "removeItem current_user", "push /login">>

\* C9: a run that finds no auth_token redirects to /login without a verify
\* request; a run whose verify request gets a non-OK response removes
\* auth_token and current_user and then redirects to /login
LogsOutOnInvalidToken ==
    [][\A m \in Mounts :
        /\ (/\ checker[m].pc = "unmounted"
            /\ checker'[m].pc # "unmounted"
            /\ localStorage.auth_token \in {NULL, ""})
           => /\ checker'[m].pc = "done"
              /\ authLog' = Append(authLog, "push /login")
              /\ localStorage' = localStorage
        /\ (fetchResult[m] = "none" /\ fetchResult'[m] = "not_ok")
           => /\ localStorage' = [auth_token |-> NULL, current_user |-> NULL]
              /\ authLog' = authLog \o Logout]_vars

\* one run was logged out by a non-OK response, and a later run found no
\* token and redirected without a request
RejectedThenNoToken ==
    \E m1, m2 \in Mounts :
        /\ fetchResult[m1] = "not_ok"
        /\ checker[m2].pc = "done"
        /\ fetchResult[m2] = "none"
        /\ authLog = <<"fetch auth-verify">> \o Logout \o <<"push /login">>
        /\ localStorage = [auth_token |-> NULL, current_user |-> NULL]

\* C10: a verify request that throws, or that gets an OK response, leaves
\* auth_token and current_user as they were and causes no redirect
NoLogoutOnNetworkError ==
    [][\A m \in Mounts :
        (fetchResult[m] = "none" /\ fetchResult'[m] \in {"throws", "ok"})
           => /\ localStorage' = localStorage
              /\ authLog' = authLog]_vars

\* a request threw, one got an OK response, and the session is still stored
ThrewAndStillLoggedIn ==
    \E m1, m2 \in Mounts :
        /\ fetchResult[m1] = "throws"
        /\ fetchResult[m2] = "ok"
        /\ localStorage = [auth_token |-> "token", current_user |-> "user"]
        /\ authLog = <<"fetch auth-verify", "fetch auth-verify">>

\* a message that is missing, empty or made of spaces only
Blank(message) ==
    message = NullStr \/ \A i \in 1..Len(message) : message[i] = " "

\* one of the three variables is undefined or empty
Unset(e) == \E k \in DOMAIN e : e[k] \in {NULL, ""}

\* the route answered with this status and error and sent nothing to Vapi
Rejected(status, error) ==
    /\ nextResponse'.status = status
    /\ nextResponse'.error = error
    /\ vapiSent' = vapiSent
    /\ vapiPayload' = vapiPayload

====
